---- MODULE Spec2Model ----
(***************************************************************************)
(* Fault signalling of libtock-rs: the panic and allocation-failure        *)
(* handlers of src/lang_items.rs with their two LED loops, and the LED     *)
(* binding of apis/leds/src/lib.rs over the command transport.             *)
(***************************************************************************)
EXTENDS Integers, Sequences, FiniteSets, TLC

(* ------------------------------ bounds --------------------------------- *)
\* largest number of LEDs a board has
MaxLeds == 3
\* number of fault-path events that are recorded in trace
MaxTrace == 20
\* number of calls of the LED binding an application makes
MaxCalls == 2

(* ------------------------- program constants --------------------------- *)
DRIVER_ID == 2
LEDS_COUNT == 0
LED_ON == 1
LED_OFF == 2
LED_TOGGLE == 3
\* Duration::from_ms(100)
SLEEP_MS == 100
\* low_level_status_code(1)
STATUS_CODE == 1

VARIABLES
    \* ---- fault path (src/lang_items.rs)
    handler,        \* "none" | "panic" | "alloc": the fault entry point that fired
    pc,             \* position of the fault-path task
    timer_driver,   \* "unset" | "Some" | "None": driver.activate().ok()
    led_driver,     \* "unset" | "Some" | "None": create_driver().ok()
    led,            \* position of the iterator led_driver.all()
    status,         \* result of the last call whose result is discarded
    first_err,      \* index in trace of the first failed led.on()/led.off(), or 0
    trace,          \* the events issued on the fault path, in order
    \* ---- board
    num_leds,       \* number of LEDs of the board
    driver_present, \* whether the kernel has an LED driver
    \* ---- LED binding (apis/leds/src/lib.rs)
    ncalls,         \* calls of the binding made so far
    call,           \* the last call: <<operation, led>>
    issued,         \* commands that reached the transport, in order
    ret,            \* the transport's return for the last command
    result          \* what the last call returned to its caller

faultVars == <<handler, pc, timer_driver, led_driver, led, status, first_err, trace>>
boardVars == <<num_leds, driver_present>>
apiVars == <<ncalls, call, issued, ret, result>>
vars == <<faultVars, boardVars, apiVars>>

(* ------------------------------ helpers -------------------------------- *)
Results == {"Ok", "Err"}

\* Result::ok(): Ok(v) becomes Some(v), Err(_) becomes None
ok(r) == IF r = "Ok" THEN "Some" ELSE "None"

\* the fault path's events are recorded up to MaxTrace of them
Record(tr, ev) == IF Len(tr) < MaxTrace THEN Append(tr, ev) ELSE tr

\* led_driver.all(): the units the driver handle knows, by index
all == 0 .. (num_leds - 1)

IsLoopOp(ev) == ev[1] \in {"on", "off", "toggle", "sleep"}
IsLedOp(ev) == ev[1] \in {"on", "off", "toggle", "count"}
\* the LED and sleep operations of the fault path, in order
LoopOps == SelectSeq(trace, IsLoopOp)

BlinkPcs == {"blink_on", "blink_await_on", "blink_off", "blink_await_off"}
CyclePcs == {"cycle_for", "cycle_sleep", "cycle_await", "cycle_off"}
ProbePcs == {"status_code", "activate", "create_driver", "if_let"}

(* ---------------------------- fault path ------------------------------- *)
FaultInit ==
    /\ handler = "none"
    /\ pc = "running"
    /\ timer_driver = "unset"
    /\ led_driver = "unset"
    /\ led = 0
    /\ status = "none"
    /\ first_err = 0
    /\ trace = << >>

ApiInit ==
    /\ ncalls = 0
    /\ call = <<"none", 0>>
    /\ issued = << >>
    /\ ret = [variant |-> "none", value |-> 0]
    /\ result = [tag |-> "none", val |-> 0]

BoardInit ==
    /\ num_leds \in 0 .. MaxLeds
    /\ driver_present \in BOOLEAN

\* the first failed unit operation is remembered
NoteErr(r) == IF first_err = 0 /\ r = "Err" /\ Len(trace) < MaxTrace
              THEN Len(trace) + 1 ELSE first_err

\* mutant: the panic entry starts the probe without emitting the status code
PanicNoStatus ==
    /\ pc = "running"
    /\ handler' = "panic"
    /\ pc' = "activate"
    /\ UNCHANGED <<timer_driver, led_driver, led, status, first_err, trace>>
    /\ UNCHANGED <<boardVars, apiVars>>

\* the program panics: panic_handler is entered
Panic ==
    /\ pc = "running"
    /\ handler' = "panic"
    /\ pc' = "status_code"
    /\ UNCHANGED <<timer_driver, led_driver, led, status, first_err, trace>>
    /\ UNCHANGED <<boardVars, apiVars>>

\* mutant: the allocation-failure entry emits the status code as well
AllocErrorWithStatus ==
    /\ pc = "running"
    /\ handler' = "alloc"
    /\ pc' = "status_code"
    /\ UNCHANGED <<timer_driver, led_driver, led, status, first_err, trace>>
    /\ UNCHANGED <<boardVars, apiVars>>

\* an allocation fails: alloc_error_handler is entered
AllocError ==
    /\ pc = "running"
    /\ handler' = "alloc"
    /\ pc' = "activate"
    /\ UNCHANGED <<timer_driver, led_driver, led, status, first_err, trace>>
    /\ UNCHANGED <<boardVars, apiVars>>

\* super::debug::low_level_status_code(1): nothing of it is consumed
low_level_status_code ==
    /\ pc = "status_code"
    /\ \E r \in Results : status' = r
    /\ trace' = Record(trace, <<"status", STATUS_CODE>>)
    /\ pc' = "activate"
    /\ UNCHANGED <<handler, timer_driver, led_driver, led, first_err>>
    /\ UNCHANGED <<boardVars, apiVars>>

\* mutant: a failed timer activation ends the probe, the LED driver is not tried
activate_or_give_up ==
    /\ pc = "activate"
    /\ \E r \in Results :
        /\ timer_driver' = ok(r)
        /\ pc' = IF r = "Ok" THEN "create_driver" ELSE "idle"
    /\ trace' = Record(trace, <<"activate", 0>>)
    /\ UNCHANGED <<handler, led_driver, led, status, first_err>>
    /\ UNCHANGED <<boardVars, apiVars>>

\* retrieve_drivers_unsafe(); create_timer_driver(); driver.activate().ok()
activate ==
    /\ pc = "activate"
    /\ \E r \in Results : timer_driver' = ok(r)
    /\ trace' = Record(trace, <<"activate", 0>>)
    /\ pc' = "create_driver"
    /\ UNCHANGED <<handler, led_driver, led, status, first_err>>
    /\ UNCHANGED <<boardVars, apiVars>>

\* led_driver_factory.create_driver().ok()
create_driver ==
    /\ pc = "create_driver"
    /\ \E r \in Results : led_driver' = ok(r)
    /\ trace' = Record(trace, <<"create_driver", 0>>)
    /\ pc' = "if_let"
    /\ UNCHANGED <<handler, timer_driver, led, status, first_err>>
    /\ UNCHANGED <<boardVars, apiVars>>

\* mutant: the loop is entered when either handle was obtained
EitherSome(l, t) == l = "Some" \/ t = "Some"

\* if let (Some(led_driver), Some(timer_driver)) = (led_driver, timer_driver)
BothSome(l, t) == l = "Some" /\ t = "Some"

\* mutant: the two entry points await each other's loop
LoopOfSwapped(h) == IF h = "panic" THEN "cycle_for" ELSE "blink_on"

\* the diagnostic loop each entry point awaits
LoopOf(h) == IF h = "panic" THEN "blink_on" ELSE "cycle_for"

\* the if let of both handlers: the loop, or the loop {} after it
if_let ==
    /\ pc = "if_let"
    /\ pc' = IF BothSome(led_driver, timer_driver) THEN LoopOf(handler) ELSE "idle"
    /\ led' = 0
    /\ UNCHANGED <<handler, timer_driver, led_driver, status, first_err, trace>>
    /\ UNCHANGED <<boardVars, apiVars>>

\* mutant: the idle loop runs the probe again while a handle is missing
idle_retries ==
    /\ pc = "idle"
    /\ pc' = "activate"
    /\ UNCHANGED <<handler, timer_driver, led_driver, led, status, first_err, trace>>
    /\ UNCHANGED <<boardVars, apiVars>>

\* mutant: the async block ends, block_on returns and unreachable!() is reached
idle_returns ==
    /\ pc = "idle"
    /\ pc' = "unreachable"
    /\ UNCHANGED <<handler, timer_driver, led_driver, led, status, first_err, trace>>
    /\ UNCHANGED <<boardVars, apiVars>>

\* loop {} after the if let
idle ==
    /\ pc = "idle"
    /\ pc' = "idle"
    /\ UNCHANGED <<handler, timer_driver, led_driver, led, status, first_err, trace>>
    /\ UNCHANGED <<boardVars, apiVars>>

\* mutant: a failed call ends the loop
Propagate(r, next) == IF r = "Err" THEN "idle" ELSE next

\* let _ = <call>: the result r of the call is discarded and the task goes on
Discard(r, next) == next

\* mutant: the task yields to the executor after every led.on()
blink_on_yields ==
    /\ pc = "blink_on"
    /\ led \in all
    /\ \E r \in Results :
        /\ status' = r
        /\ first_err' = NoteErr(r)
        /\ pc' = Discard(r, "blink_await_on")
    /\ trace' = Record(trace, <<"on", led>>)
    /\ led' = led + 1
    /\ UNCHANGED <<handler, timer_driver, led_driver>>
    /\ UNCHANGED <<boardVars, apiVars>>

(* blink_all_leds: lines 68-79 *)
\* for led in led_driver.all() { let _ = led.on(); }
blink_on ==
    /\ pc = "blink_on"
    /\ led \in all
    /\ \E r \in Results :
        /\ status' = r
        /\ first_err' = NoteErr(r)
        /\ pc' = Discard(r, "blink_on")
    /\ trace' = Record(trace, <<"on", led>>)
    /\ led' = led + 1
    /\ UNCHANGED <<handler, timer_driver, led_driver>>
    /\ UNCHANGED <<boardVars, apiVars>>

\* timer_driver.sleep(Duration::from_ms(100)) after the last led.on(): the
\* task suspends
blink_sleep_on ==
    /\ pc = "blink_on"
    /\ led \notin all
    /\ trace' = Record(trace, <<"sleep", SLEEP_MS>>)
    /\ pc' = "blink_await_on"
    /\ led' = 0
    /\ UNCHANGED <<handler, timer_driver, led_driver, status, first_err>>
    /\ UNCHANGED <<boardVars, apiVars>>

\* mutant: when the first sleep fails the loop starts over, without the off phase
blink_resume_on_checked ==
    /\ pc = "blink_await_on"
    /\ \E r \in Results :
        /\ status' = r
        /\ pc' = IF r = "Err" THEN "blink_on" ELSE "blink_off"
    /\ UNCHANGED <<handler, timer_driver, led_driver, led, first_err, trace>>
    /\ UNCHANGED <<boardVars, apiVars>>

\* .await of the first sleep completes: let _ = its result
blink_resume_on ==
    /\ pc = "blink_await_on"
    /\ \E r \in Results :
        /\ status' = r
        /\ pc' = Discard(r, "blink_off")
    /\ UNCHANGED <<handler, timer_driver, led_driver, led, first_err, trace>>
    /\ UNCHANGED <<boardVars, apiVars>>

\* mutant: the second for of blink_all_leds calls led.on() again
blink_off_calls_on ==
    /\ pc = "blink_off"
    /\ led \in all
    /\ \E r \in Results :
        /\ status' = r
        /\ first_err' = NoteErr(r)
        /\ pc' = Discard(r, "blink_off")
    /\ trace' = Record(trace, <<"on", led>>)
    /\ led' = led + 1
    /\ UNCHANGED <<handler, timer_driver, led_driver>>
    /\ UNCHANGED <<boardVars, apiVars>>

\* for led in led_driver.all() { let _ = led.off(); }
blink_off ==
    /\ pc = "blink_off"
    /\ led \in all
    /\ \E r \in Results :
        /\ status' = r
        /\ first_err' = NoteErr(r)
        /\ pc' = Discard(r, "blink_off")
    /\ trace' = Record(trace, <<"off", led>>)
    /\ led' = led + 1
    /\ UNCHANGED <<handler, timer_driver, led_driver>>
    /\ UNCHANGED <<boardVars, apiVars>>

\* timer_driver.sleep(Duration::from_ms(100)) after the last led.off()
blink_sleep_off ==
    /\ pc = "blink_off"
    /\ led \notin all
    /\ trace' = Record(trace, <<"sleep", SLEEP_MS>>)
    /\ pc' = "blink_await_off"
    /\ led' = 0
    /\ UNCHANGED <<handler, timer_driver, led_driver, status, first_err>>
    /\ UNCHANGED <<boardVars, apiVars>>

\* .await of the second sleep completes; loop { } starts over
blink_resume_off ==
    /\ pc = "blink_await_off"
    /\ \E r \in Results :
        /\ status' = r
        /\ pc' = Discard(r, "blink_on")
    /\ UNCHANGED <<handler, timer_driver, led_driver, led, first_err, trace>>
    /\ UNCHANGED <<boardVars, apiVars>>

blink_all_leds ==
    \/ blink_on
    \/ blink_sleep_on
    \/ blink_resume_on
    \/ blink_off
    \/ blink_sleep_off
    \/ blink_resume_off

(* cycle_all_leds: lines 102-110 *)
\* mutant: cycle_all_leds toggles the unit instead of switching it on
cycle_on_toggles ==
    /\ pc = "cycle_for"
    /\ led \in all
    /\ \E r \in Results :
        /\ status' = r
        /\ first_err' = NoteErr(r)
        /\ pc' = Discard(r, "cycle_sleep")
    /\ trace' = Record(trace, <<"toggle", led>>)
    /\ UNCHANGED <<handler, timer_driver, led_driver, led>>
    /\ UNCHANGED <<boardVars, apiVars>>

\* for led in led_driver.all() { let _ = led.on(); ...
cycle_on ==
    /\ pc = "cycle_for"
    /\ led \in all
    /\ \E r \in Results :
        /\ status' = r
        /\ first_err' = NoteErr(r)
        /\ pc' = Discard(r, "cycle_sleep")
    /\ trace' = Record(trace, <<"on", led>>)
    /\ UNCHANGED <<handler, timer_driver, led_driver, led>>
    /\ UNCHANGED <<boardVars, apiVars>>

\* mutant: cycle_all_leds sleeps for a second
cycle_sleep_1000 ==
    /\ pc = "cycle_sleep"
    /\ trace' = Record(trace, <<"sleep", 1000>>)
    /\ pc' = "cycle_await"
    /\ UNCHANGED <<handler, timer_driver, led_driver, led, status, first_err>>
    /\ UNCHANGED <<boardVars, apiVars>>

\* timer_driver.sleep(Duration::from_ms(100)): the task suspends
cycle_sleep ==
    /\ pc = "cycle_sleep"
    /\ trace' = Record(trace, <<"sleep", SLEEP_MS>>)
    /\ pc' = "cycle_await"
    /\ UNCHANGED <<handler, timer_driver, led_driver, led, status, first_err>>
    /\ UNCHANGED <<boardVars, apiVars>>

\* .await of the sleep completes: let _ = its result
cycle_resume ==
    /\ pc = "cycle_await"
    /\ \E r \in Results :
        /\ status' = r
        /\ pc' = Discard(r, "cycle_off")
    /\ UNCHANGED <<handler, timer_driver, led_driver, led, first_err, trace>>
    /\ UNCHANGED <<boardVars, apiVars>>

\* mutant: cycle_all_leds sleeps once more after led.off()
cycle_off_then_sleep ==
    /\ pc = "cycle_off"
    /\ \E r \in Results :
        /\ status' = r
        /\ first_err' = NoteErr(r)
        /\ pc' = Discard(r, "cycle_for")
    /\ trace' = Record(Record(trace, <<"off", led>>), <<"sleep", SLEEP_MS>>)
    /\ led' = led + 1
    /\ UNCHANGED <<handler, timer_driver, led_driver>>
    /\ UNCHANGED <<boardVars, apiVars>>

\* let _ = led.off(); } the iterator advances
cycle_off ==
    /\ pc = "cycle_off"
    /\ \E r \in Results :
        /\ status' = r
        /\ first_err' = NoteErr(r)
        /\ pc' = Discard(r, "cycle_for")
    /\ trace' = Record(trace, <<"off", led>>)
    /\ led' = led + 1
    /\ UNCHANGED <<handler, timer_driver, led_driver>>
    /\ UNCHANGED <<boardVars, apiVars>>

\* mutant: the loop sleeps each time the iterator is exhausted
cycle_loop_sleeps ==
    /\ pc = "cycle_for"
    /\ led \notin all
    /\ led' = 0
    /\ pc' = "cycle_for"
    /\ trace' = Record(trace, <<"sleep", SLEEP_MS>>)
    /\ UNCHANGED <<handler, timer_driver, led_driver, status, first_err>>
    /\ UNCHANGED <<boardVars, apiVars>>

\* mutant: the for of cycle_all_leds is not inside a loop: after the last
\* unit the task spins without starting over
cycle_loop_once ==
    /\ pc = "cycle_for"
    /\ led \notin all
    /\ led' = led
    /\ pc' = "cycle_for"
    /\ UNCHANGED <<handler, timer_driver, led_driver, status, first_err, trace>>
    /\ UNCHANGED <<boardVars, apiVars>>

\* the iterator is exhausted: loop { } starts the for again; with no unit
\* this is all the loop ever does
cycle_loop ==
    /\ pc = "cycle_for"
    /\ led \notin all
    /\ led' = 0
    /\ pc' = "cycle_for"
    /\ UNCHANGED <<handler, timer_driver, led_driver, status, first_err, trace>>
    /\ UNCHANGED <<boardVars, apiVars>>

cycle_all_leds ==
    \/ cycle_on
    \/ cycle_sleep
    \/ cycle_resume
    \/ cycle_off
    \/ cycle_loop

(* ------------------ LED binding: apis/leds/src/lib.rs ------------------ *)
\* unit indices a caller passes: in range, and out of range for every board
Units == 0 .. (MaxLeds + 1)

Success == [variant |-> "Success", value |-> 0]
SuccessU32(v) == [variant |-> "SuccessU32", value |-> v]
Failure(e) == [variant |-> "Failure", value |-> e]

\* S::command: what the far side of the channel may return for one command.
\* An absent driver fails with NODEVICE, an index that is no unit of the
\* board with INVAL; the driver may fail to allocate its grant (NOMEM).
command(driver, cmd, arg0, arg1) ==
    IF driver # DRIVER_ID \/ ~driver_present THEN {Failure("NODEVICE")}
    ELSE IF cmd = LEDS_COUNT THEN {SuccessU32(num_leds), Failure("NOMEM")}
    ELSE IF cmd \notin {LED_ON, LED_OFF, LED_TOGGLE} THEN {Failure("NOSUPPORT")}
    ELSE IF arg0 >= num_leds THEN {Failure("INVAL")}
    ELSE {Success, Failure("NOMEM")}

\* CommandReturn::to_result: a success is Ok with its value (0 stands for
\* the unit value), a failure is Err with its error code
to_result(r) ==
    IF r.variant = "Failure" THEN [tag |-> "Err", val |-> r.value]
    ELSE [tag |-> "Ok", val |-> r.value]

\* a call of the binding returns res to its caller after the commands cmds
\* went through the transport, the last of which returned r
Return(op, unit, cmds, r, res) ==
    /\ ncalls' = ncalls + 1
    /\ call' = <<op, unit>>
    /\ issued' = issued \o cmds
    /\ ret' = r
    /\ result' = res
    /\ UNCHANGED <<faultVars, boardVars>>

\* mutant: count() answers 0 when the command fails
Leds_count_or_zero ==
    /\ ncalls < MaxCalls
    /\ \E r \in command(DRIVER_ID, LEDS_COUNT, 0, 0) :
        Return("count", 0, <<<<DRIVER_ID, LEDS_COUNT, 0, 0>>>>, r,
               IF r.variant = "Failure" THEN [tag |-> "Ok", val |-> 0] ELSE to_result(r))

\* Leds::count(): S::command(DRIVER_ID, LEDS_COUNT, 0, 0).to_result()
Leds_count ==
    /\ ncalls < MaxCalls
    /\ \E r \in command(DRIVER_ID, LEDS_COUNT, 0, 0) :
        Return("count", 0, <<<<DRIVER_ID, LEDS_COUNT, 0, 0>>>>, r, to_result(r))

\* Leds::on(led): S::command(DRIVER_ID, LED_ON, led, 0).to_result()
Leds_on(l) ==
    /\ ncalls < MaxCalls
    /\ \E r \in command(DRIVER_ID, LED_ON, l, 0) :
        Return("on", l, <<<<DRIVER_ID, LED_ON, l, 0>>>>, r, to_result(r))

\* mutant: off() checks nothing and swallows the transport's failure
Leds_off_silent(l) ==
    /\ ncalls < MaxCalls
    /\ \E r \in command(DRIVER_ID, LED_OFF, l, 0) :
        Return("off", l, <<<<DRIVER_ID, LED_OFF, l, 0>>>>, r, [tag |-> "Ok", val |-> 0])

\* Leds::off(led): S::command(DRIVER_ID, LED_OFF, led, 0).to_result()
Leds_off(l) ==
    /\ ncalls < MaxCalls
    /\ \E r \in command(DRIVER_ID, LED_OFF, l, 0) :
        Return("off", l, <<<<DRIVER_ID, LED_OFF, l, 0>>>>, r, to_result(r))

\* mutant: toggle() issues the command of on()
Leds_toggle_as_on(l) ==
    /\ ncalls < MaxCalls
    /\ \E r \in command(DRIVER_ID, LED_ON, l, 0) :
        Return("toggle", l, <<<<DRIVER_ID, LED_ON, l, 0>>>>, r, to_result(r))

\* Leds::toggle(led): S::command(DRIVER_ID, LED_TOGGLE, led, 0).to_result()
Leds_toggle(l) ==
    /\ ncalls < MaxCalls
    /\ \E r \in command(DRIVER_ID, LED_TOGGLE, l, 0) :
        Return("toggle", l, <<<<DRIVER_ID, LED_TOGGLE, l, 0>>>>, r, to_result(r))

count == Leds_count
on == \E l \in Units : Leds_on(l)
off == \E l \in Units : Leds_off(l)
toggle == \E l \in Units : Leds_toggle(l)

(* --------------------------- specifications ---------------------------- *)
Init == FaultInit /\ BoardInit /\ ApiInit

\* a fault occurs and its handler runs
Next ==
    \/ Panic
    \/ AllocError
    \/ low_level_status_code
    \/ activate
    \/ create_driver
    \/ if_let
    \/ idle
    \/ blink_all_leds
    \/ cycle_all_leds

Spec == Init /\ [][Next]_vars

\* an application calls the LED binding
NextLeds ==
    \/ count
    \/ on
    \/ off
    \/ toggle

SpecLeds == Init /\ [][NextLeds]_vars

(* ------------------------------- claims -------------------------------- *)
LoopPcs == BlinkPcs \cup CyclePcs

\* ops follows the endless repetition of the sequence cyc
Repeats(ops, cyc) ==
    \A k \in 1 .. Len(ops) : ops[k] = cyc[((k - 1) % Len(cyc)) + 1]

\* on(0..n-1), sleep(100), off(0..n-1), sleep(100)
BlinkCycle(n) ==
    [k \in 1 .. (2 * n + 2) |->
        IF k <= n THEN <<"on", k - 1>>
        ELSE IF k = n + 1 THEN <<"sleep", 100>>
        ELSE IF k <= 2 * n + 1 THEN <<"off", k - n - 2>>
        ELSE <<"sleep", 100>>]

\* on(i), sleep(100), off(i), sleep(100) for i = 0..n-1
CyclePassWithTwoSleeps(n) ==
    [k \in 1 .. (4 * n) |->
        IF k % 4 = 1 THEN <<"on", (k - 1) \div 4>>
        ELSE IF k % 4 = 3 THEN <<"off", (k - 1) \div 4>>
        ELSE <<"sleep", 100>>]

\* on(i), sleep(100), off(i) for i = 0..n-1
CyclePass(n) ==
    [k \in 1 .. (3 * n) |->
        IF k % 3 = 1 THEN <<"on", (k - 1) \div 3>>
        ELSE IF k % 3 = 2 THEN <<"sleep", 100>>
        ELSE <<"off", (k - 1) \div 3>>]

\* C1: in both fault entry points, when the timer activation or the LED
\* driver creation has failed, no LED or sleep operation has been issued, the
\* task is in neither diagnostic loop, and once the probe is over it is in
\* the idle loop.
C1_NoLoopWithoutBothHandles ==
    (handler # "none" /\ (timer_driver = "None" \/ led_driver = "None")) =>
        /\ LoopOps = << >>
        /\ pc \notin LoopPcs
        /\ pc \notin ProbePcs => pc = "idle"

\* C1 witness: the LED driver creation failed, the timer activation
\* succeeded, and the handler idles
C1_Witness ==
    /\ pc = "idle"
    /\ led_driver = "None"
    /\ timer_driver = "Some"

\* C2: after a panic the LED and sleep operations issued are the endless
\* repetition of on(0..N-1), sleep(100), off(0..N-1), sleep(100).
C2_BlinkSequence ==
    handler = "panic" => Repeats(LoopOps, BlinkCycle(num_leds))

\* C2 witness: three units, two full cycles issued
C2_Witness ==
    /\ handler = "panic"
    /\ num_leds = 3
    /\ Len(LoopOps) >= 16

\* C3 as stated: after an allocation failure the operations issued are the
\* endless repetition of on(i), sleep, off(i), sleep for i = 0..N-1.
C3_AsStated ==
    handler = "alloc" => Repeats(LoopOps, CyclePassWithTwoSleeps(num_leds))

\* C3 amended: after an allocation failure the operations issued are the
\* endless repetition of on(i), sleep(100), off(i) for i = 0..N-1: off(i) is
\* followed at once by the on of the next unit, and unit N-1 by unit 0.
C3_CycleSequence ==
    handler = "alloc" => Repeats(LoopOps, CyclePass(num_leds))

\* C3 witness: three units, a full pass and the on(0) of the next one issued
C3_Witness ==
    /\ handler = "alloc"
    /\ num_leds = 3
    /\ Len(LoopOps) >= 10
    /\ LoopOps[9] = <<"off", 2>>
    /\ LoopOps[10] = <<"on", 0>>

\* C4: once a unit operation of a diagnostic loop has failed, the task is
\* still in that loop and the operations issued, those after the failure
\* included, are the ones of the run in which every call succeeds.
C4_ErrorsIgnored ==
    first_err > 0 =>
        /\ pc \in LoopPcs
        /\ handler = "panic" => Repeats(LoopOps, BlinkCycle(num_leds))
        /\ handler = "alloc" => Repeats(LoopOps, CyclePass(num_leds))

\* C4 witness: a unit operation failed and three more operations were issued
C4_Witness ==
    /\ first_err > 0
    /\ Len(trace) >= first_err + 3

\* the command identity the binding fixes for each operation
CommandIdOf(op) ==
    CASE op = "count" -> 0
      [] op = "on" -> 1
      [] op = "off" -> 2
      [] op = "toggle" -> 3

\* C5: every call of the binding has put exactly one command on the
\* transport, <<2, command id, unit index, 0>>, and returned Ok with the
\* transport's value on success and Err with the transport's error code on
\* failure.
C5_OneCommandPassedThrough ==
    ncalls > 0 =>
        /\ Len(issued) = ncalls
        /\ issued[Len(issued)] = <<2, CommandIdOf(call[1]), call[2], 0>>
        /\ call[1] = "count" => call[2] = 0
        /\ ret.variant = "Failure" => result = [tag |-> "Err", val |-> ret.value]
        /\ ret.variant # "Failure" => result = [tag |-> "Ok", val |-> ret.value]

\* C5 witness: a second call, toggle(1), succeeded
C5_Witness ==
    /\ ncalls >= 2
    /\ call = <<"toggle", 1>>
    /\ result.tag = "Ok"

\* C6: count() returns Ok(0) exactly when the transport reported success
\* with value 0, and Err exactly when the transport reported failure.
C6_CountZeroIsNotFailure ==
    call[1] = "count" =>
        /\ result = [tag |-> "Ok", val |-> 0] <=> ret = SuccessU32(0)
        /\ result.tag = "Err" <=> ret.variant = "Failure"

\* C6 witness: the driver is present with no unit and count() returned Ok(0)
C6_Witness ==
    /\ call[1] = "count"
    /\ driver_present
    /\ num_leds = 0
    /\ result = [tag |-> "Ok", val |-> 0]

\* C7: on, off and toggle of an index that is no unit of the board return
\* Err with the error code of the far side, for the command that carried the
\* index unchanged.
C7_OutOfRangeIsError ==
    (call[1] \in {"on", "off", "toggle"} /\ call[2] >= num_leds) =>
        /\ result.tag = "Err"
        /\ result.val = ret.value
        /\ issued[Len(issued)][3] = call[2]

\* C7 witness: the driver is present and off() of the first index past the
\* units returned the far side's INVAL
C7_Witness ==
    /\ driver_present
    /\ call = <<"off", num_leds>>
    /\ result = [tag |-> "Err", val |-> "INVAL"]

\* C8: once a fault entry point has started, the handler stays the same, the
\* task never gets back to the program nor past block_on, a task in a
\* diagnostic loop stays in it and a task in the idle loop stays in it.
C8_Terminal ==
    [][/\ handler # "none" => (handler' = handler /\ pc' \notin {"running", "unreachable"})
       /\ pc \in BlinkPcs => pc' \in BlinkPcs
       /\ pc \in CyclePcs => pc' \in CyclePcs
       /\ pc = "idle" => pc' = "idle"
       /\ pc \in ProbePcs => pc' \in ProbePcs \cup LoopPcs \cup {"idle"}]_vars

\* C8 witness: no handle was obtained and the handler idles
C8_Witness ==
    /\ handler = "alloc"
    /\ pc = "idle"
    /\ timer_driver = "None"
    /\ led_driver = "None"

\* C9: after a panic nothing is issued before the status code; once it is
\* emitted it is the first event of the fault path, it is 1, no second one
\* follows, and the probe starts whether or not the emission succeeded.
C9_StatusCodeFirstAndOnce ==
    handler = "panic" =>
        /\ pc = "status_code" => trace = << >>
        /\ pc # "status_code" =>
            /\ trace # << >>
            /\ trace[1] = <<"status", 1>>
            /\ \A k \in 2 .. Len(trace) : trace[k][1] # "status"
        /\ Len(trace) = 1 => pc = "activate"

\* C9 witness: the emission failed and the blink loop was entered all the same
C9_Witness ==
    /\ handler = "panic"
    /\ pc = "blink_on"
    /\ LoopOps = << >>
    /\ status = "Err"

\* C10: after a panic the task is never in the sequential-cycle loop; after
\* an allocation failure it is never in the simultaneous-blink loop and any
\* two activations have a sleep between them.
C10_OwnPatternOnly ==
    /\ handler = "panic" => pc \notin CyclePcs
    /\ handler = "alloc" =>
        /\ pc \notin BlinkPcs
        /\ \A j, k \in 1 .. Len(LoopOps) :
            (j < k /\ LoopOps[j][1] = "on" /\ LoopOps[k][1] = "on") =>
                \E m \in (j + 1) .. (k - 1) : LoopOps[m][1] = "sleep"

\* C10 witness: after a panic two units were activated with no sleep between
C10_Witness ==
    /\ handler = "panic"
    /\ Len(LoopOps) >= 2
    /\ LoopOps[1] = <<"on", 0>>
    /\ LoopOps[2] = <<"on", 1>>

\* the attempts of the availability probe, in the order they were made
IsProbeOp(ev) == ev[1] \in {"activate", "create_driver"}
ProbeOps == SelectSeq(trace, IsProbeOp)

\* C12: in both entry points the timer activation is attempted first and the
\* LED driver creation second, whatever the outcome of the timer activation,
\* and after the two attempts the fault path goes on (loop or idle loop).
C12_ProbeOrderIndependent ==
    handler # "none" =>
        /\ pc = "status_code" => ProbeOps = << >>
        /\ pc = "activate" => (ProbeOps = << >> /\ timer_driver = "unset")
        /\ pc = "create_driver" =>
            /\ ProbeOps = <<<<"activate", 0>>>>
            /\ timer_driver \in {"Some", "None"}
            /\ led_driver = "unset"
        /\ pc \notin {"status_code", "activate", "create_driver"} =>
            /\ ProbeOps = <<<<"activate", 0>>, <<"create_driver", 0>>>>
            /\ timer_driver \in {"Some", "None"}
            /\ led_driver \in {"Some", "None"}
            /\ pc \in {"if_let", "idle"} \cup LoopPcs

\* C12 witness: the timer activation failed and the LED driver creation was
\* still attempted, with success
C12_Witness ==
    /\ timer_driver = "None"
    /\ led_driver = "Some"
    /\ ProbeOps = <<<<"activate", 0>>, <<"create_driver", 0>>>>

\* number of events of one kind in a sequence of events
CountOf(tr, kind) == Cardinality({k \in 1 .. Len(tr) : tr[k][1] = kind})

\* C13: within one fault occurrence the timer activation and the LED driver
\* creation are each attempted at most once: once an attempt has given its
\* outcome, the outcome never changes and the task never gets back to the
\* attempt.
C13_NoRetry ==
    [][/\ timer_driver # "unset" => (timer_driver' = timer_driver /\ pc' # "activate")
       /\ led_driver # "unset" => (led_driver' = led_driver /\ pc' # "create_driver")
       /\ CountOf(trace', "activate") <= 1
       /\ CountOf(trace', "create_driver") <= 1]_vars

\* C13 witness: after a panic both attempts failed and the handler idles
C13_Witness ==
    /\ handler = "panic"
    /\ pc = "idle"
    /\ timer_driver = "None"
    /\ led_driver = "None"
    /\ CountOf(trace, "activate") = 1
    /\ CountOf(trace, "create_driver") = 1

\* the fault path with its scheduling: the fault-path task is the only task,
\* so each of its steps is eventually taken, and every sleep eventually
\* completes
SpecFair ==
    /\ Spec
    /\ WF_vars(blink_all_leds)
    /\ WF_vars(cycle_all_leds)

\* a step that calls led.on() of unit i, and one that calls led.off() of it
Activates(i) == (blink_on \/ cycle_on) /\ led = i
Deactivates(i) == (blink_off \/ cycle_off) /\ led = i

\* C14: a task in a diagnostic loop stays in that loop, and when every step
\* and every sleep eventually completes, a task that has entered a loop
\* activates and deactivates every unit 0..N-1 again and again.
C14_LoopForever ==
    /\ [][(pc \in BlinkPcs => pc' \in BlinkPcs) /\ (pc \in CyclePcs => pc' \in CyclePcs)]_vars
    /\ \A i \in 0 .. (MaxLeds - 1) :
        \/ <>[](pc \notin LoopPcs \/ i >= num_leds)
        \/ ([]<><<Activates(i)>>_vars /\ []<><<Deactivates(i)>>_vars)

\* C14 witness: the sequential-cycle loop has gone through every unit and
\* has activated unit 0 a second time
C14_Witness ==
    /\ handler = "alloc"
    /\ num_leds >= 2
    /\ pc = "cycle_sleep"
    /\ led = 0
    /\ Len(LoopOps) > 3 * num_leds

\* the program points at which the task is suspended in an .await
AwaitPcs == {"blink_await_on", "blink_await_off", "cycle_await"}

\* the last event of a sequence of events
Last(tr) == tr[Len(tr)]

\* C15: a step suspends the task only by calling sleep: every step into a
\* suspended state issues a sleep, every step that issues anything else (a
\* unit operation, a probe attempt, the status code) leaves the task running,
\* and in the simultaneous-blink loop a unit operation of a phase is followed
\* by the next unit operation of that phase with the task still running.
C15_SuspendOnlyAtSleep ==
    [][/\ (pc \notin AwaitPcs /\ pc' \in AwaitPcs /\ Len(trace) < MaxTrace) =>
            trace' = Append(trace, <<"sleep", 100>>)
       /\ (Len(trace') > Len(trace) /\ Last(trace')[1] # "sleep") => pc' \notin AwaitPcs
       /\ (pc \in {"blink_on", "blink_off"} /\ led \in all) =>
            (pc' = pc /\ led' = led + 1)
       /\ pc \in ProbePcs => pc' \notin AwaitPcs]_vars

\* C15 witness: the three activations of the first phase of the blink loop
\* are issued and the task has not been suspended yet
C15_Witness ==
    /\ handler = "panic"
    /\ pc = "blink_on"
    /\ num_leds = 3
    /\ LoopOps = <<<<"on", 0>>, <<"on", 1>>, <<"on", 2>>>>

\* C16: every sleep issued on the fault path asks for 100 ms.
C16_SleepIs100 ==
    \A k \in 1 .. Len(trace) : trace[k][1] = "sleep" => trace[k][2] = 100

\* C16 witness: the sequential-cycle loop is suspended in its second sleep
C16_Witness ==
    /\ handler = "alloc"
    /\ pc = "cycle_await"
    /\ CountOf(trace, "sleep") = 2
    /\ Last(trace) = <<"sleep", 100>>

\* where each loop goes on when a sleep has completed
AfterSleep(p) ==
    CASE p = "blink_await_on" -> "blink_off"
      [] p = "blink_await_off" -> "blink_on"
      [] p = "cycle_await" -> "cycle_off"

\* C17: when a sleep of either loop returns an error the task goes on with
\* the step that follows the sleep in the all-success run, with nothing
\* issued by the failure and the iterator untouched.
C17_SleepErrorIgnored ==
    [][(pc \in AwaitPcs /\ status' = "Err") =>
            /\ pc' = AfterSleep(pc)
            /\ trace' = trace
            /\ led' = led
            /\ first_err' = first_err]_vars

\* C17 witness: the first sleep of the blink loop failed and the task is at
\* the off phase, in the loop
C17_Witness ==
    /\ handler = "panic"
    /\ pc = "blink_off"
    /\ led = 0
    /\ num_leds >= 1
    /\ status = "Err"
    /\ Last(trace) = <<"sleep", 100>>

\* C18: with both handles and no unit, the simultaneous-blink loop issues
\* sleeps only, and the sequential-cycle loop issues nothing and stays at the
\* head of its for, never suspended.
C18_NoUnits ==
    (num_leds = 0 /\ handler # "none") =>
        /\ \A k \in 1 .. Len(LoopOps) : LoopOps[k] = <<"sleep", 100>>
        /\ handler = "alloc" => (LoopOps = << >> /\ pc \notin (CyclePcs \ {"cycle_for"}))
        /\ pc = "blink_on" => Len(LoopOps) % 2 = 0 \/ Len(trace) = MaxTrace
        /\ pc = "blink_off" => Len(LoopOps) % 2 = 1 \/ Len(trace) = MaxTrace

\* C18 witness: with no unit the blink loop has gone through two cycles,
\* four sleeps
C18_Witness ==
    /\ handler = "panic"
    /\ num_leds = 0
    /\ pc = "blink_on"
    /\ LoopOps = <<<<"sleep", 100>>, <<"sleep", 100>>, <<"sleep", 100>>, <<"sleep", 100>>>>

\* C19: a status code is emitted only by the panic entry, as the first event
\* of the fault path and with the value 1; the allocation-failure entry
\* emits none.
C19_StatusOnlyOnPanic ==
    /\ \A k \in 1 .. Len(trace) :
        trace[k][1] = "status" => (handler = "panic" /\ k = 1 /\ trace[k][2] = 1)
    /\ handler = "alloc" => (pc # "status_code" /\ CountOf(trace, "status") = 0)

\* C19 witness: the allocation-failure entry is through the probe and in its
\* loop, with operations issued
C19_Witness ==
    /\ handler = "alloc"
    /\ pc \in CyclePcs
    /\ Len(trace) >= 8

\* C20: the fault path issues no toggle and no count; every LED operation it
\* issues is on or off of a unit in 0..N-1.
C20_OnlyOnOffInRange ==
    \A k \in 1 .. Len(trace) :
        IsLedOp(trace[k]) =>
            /\ trace[k][1] \in {"on", "off"}
            /\ trace[k][2] \in 0 .. (num_leds - 1)

\* C20 witness: the last unit of three has been switched on and off
C20_Witness ==
    /\ num_leds = 3
    /\ \E j, k \in 1 .. Len(trace) :
        j < k /\ trace[j] = <<"on", 2>> /\ trace[k] = <<"off", 2>>

====
